---- MODULE Spec2Model ----
(***************************************************************************)
(* Trip analysis engine of the monitoring app (apps/monitoring/models.py): *)
(* MonitoringSystem.analyze_current_position, check_route_deviation,       *)
(* add_alert and save, together with the device row the analyzer reads.    *)
(* Around it: the life cycle of the trip with the status of its vehicle,   *)
(* the other trips of the vehicle with their generated identifiers, and    *)
(* the writers of the Device row (Device.save).                            *)
(*                                                                         *)
(* Time is counted in whole minutes.  Latitudes are counted in units *)
(* of 100 m of arc along one meridian (every point of the model has the    *)
(* same longitude Lng), where the haversine distance is R * |delta lat|.   *)
(* All reads of timezone.now() inside one analysis cycle return the same   *)
(* value: a cycle is far shorter than one minute.                       *)
(***************************************************************************)
EXTENDS Integers, Sequences, FiniteSets, TLC

VARIABLES
    now,      \* wall clock (timezone.now()), in minutes
    route,    \* the Route row of the trip (not edited while the model runs)
    db,       \* the persisted MonitoringSystem row
    result,   \* what the last call did: its outcome and return value
    history,  \* the VehiclePositionHistory rows of the trip, oldest first
    cycles,   \* the analysis cycles in flight, one per worker
    device,   \* the persisted Device row of the vehicle's tracker
    vehicle,  \* the persisted status of the Vehicle row of the trip
    trips     \* the other MonitoringSystem rows: identifier and status

vars == <<now, route, db, result, history, cycles, device, vehicle, trips>>

----------------------------------------------------------------------------
(* Bounds *)

MaxTime   == 11    \* the clock stops at StartTime + MaxTime
MaxAlerts == 2     \* no cycle takes the alert log beyond this length
MaxHistory == 3    \* rows of the position history
AlternateTime   == 3   \* the clock bound of the calls in quick succession
AlternateAlerts == 3   \* and the bound of their alert log
MaxTrips == 3      \* other trips of the vehicle in the table

(* Program constants *)

StartTime == 100   \* clock value when the model starts
Null                            == -1   \* None / NULL
Lng                             == 7    \* the longitude of every point
MetersPerUnit                   == 100  \* metres per unit of latitude
DefaultTolerance                == 200  \* route_deviation_tolerance_meters
DeviationRealertMinutes         == 2
StopAlertMinutes                == 5
DEVICE_UPDATE_THRESHOLD_MINUTES == 30

Abs(x) == IF x < 0 THEN -x ELSE x

(* Python truthiness of a nullable number: None and 0 are falsy. *)
Truthy(x) == x # Null /\ x # 0

----------------------------------------------------------------------------
(* Inputs *)

Latitudes == {Null, 14, 17}     \* device latitudes: none, 200 m and 500 m
                                \* from the nearest waypoint of RouteGeom
Speeds    == {Null, 0, 50}      \* device speeds, km/h
Ticks     == {1, 5}             \* minutes between two calls
DeviceAges == {0, DEVICE_UPDATE_THRESHOLD_MINUTES + 1}
                                \* age of the device's last update at a call

(* The Device rows a call can find at time t.  The device is owned by the *)
(* telemetry collaborator: each call reads it as an input.                *)
DeviceRows(t) ==
    [last_latitude : Latitudes, last_longitude : {Lng}, last_speed : Speeds,
     last_system_date : {t - a : a \in DeviceAges}]

(* GeoJSON coordinates are [longitude, latitude] pairs. *)
RouteGeom == [route_geometry |-> << <<Lng, 10>>, <<Lng, 11>>, <<Lng, 12>> >>,
              origin_latitude |-> 10, origin_longitude |-> Lng,
              destination_latitude |-> 12, destination_longitude |-> Lng]
RouteEnds == [route_geometry |-> << >>,
              origin_latitude |-> 10, origin_longitude |-> Lng,
              destination_latitude |-> 12, destination_longitude |-> Lng]
(* Origin and destination on the equator and no geometry: both latitudes  *)
(* are Decimal 0, which the truthiness tests of the fallback reject.      *)
RouteNone == [route_geometry |-> << >>,
              origin_latitude |-> 0, origin_longitude |-> Lng,
              destination_latitude |-> 0, destination_longitude |-> Lng + 1]
Routes == {RouteGeom, RouteEnds, RouteNone}

(* The same for the calls that only look at the age of the device row,  *)
(* with the ages on both sides of the threshold.                        *)
ParkedDeviceRows(t) ==
    [last_latitude : {14}, last_longitude : {Lng}, last_speed : {0},
     last_system_date :
         {t - a : a \in DeviceAges \cup {DEVICE_UPDATE_THRESHOLD_MINUTES - 1,
                                         DEVICE_UPDATE_THRESHOLD_MINUTES}}]

----------------------------------------------------------------------------
(* haversine_distance, for two points of the same meridian *)
haversine_distance(lat1, lon1, lat2, lon2) == MetersPerUnit * Abs(lat2 - lat1)


----------------------------------------------------------------------------
(* Device.is_updated_recently *)
is_updated_recently(dev, t) ==
    IF dev.last_system_date = Null
    THEN FALSE
    ELSE t - dev.last_system_date <= DEVICE_UPDATE_THRESHOLD_MINUTES

(* MonitoringSystem.current_vehicle_position: Null when the device has no *)
(* latitude or longitude (None or Decimal 0).                             *)
NoPosition == [latitude |-> Null, longitude |-> Null, speed |-> Null,
               last_update |-> Null]

current_vehicle_position(dev) ==
    IF Truthy(dev.last_latitude) /\ Truthy(dev.last_longitude)
    THEN [latitude    |-> dev.last_latitude,
          longitude   |-> dev.last_longitude,
          speed       |-> IF Truthy(dev.last_speed) THEN dev.last_speed ELSE Null,
          last_update |-> dev.last_system_date]
    ELSE NoPosition

----------------------------------------------------------------------------
(* MonitoringSystem.check_route_deviation *)

(* The loop "if distance < min_distance": the first waypoint at the       *)
(* smallest distance wins.  wps is a sequence of [lat, lng] records.      *)
RECURSIVE NearestFrom(_, _, _, _, _)
NearestFrom(wps, i, lat, lng, best) ==
    IF i > Len(wps)
    THEN best
    ELSE LET distance == haversine_distance(lat, lng, wps[i].lat, wps[i].lng)
         IN  IF best.index = Null \/ distance < best.min_distance
             THEN NearestFrom(wps, i + 1, lat, lng,
                              [min_distance |-> distance, index |-> i,
                               latitude |-> wps[i].lat, longitude |-> wps[i].lng])
             ELSE NearestFrom(wps, i + 1, lat, lng, best)

NoNearest == [min_distance |-> Null, index |-> Null,
              latitude |-> Null, longitude |-> Null]

(* Converts the GeoJSON [lng, lat] pairs to [lat, lng]. *)
GeometryPoints(r) ==
    [i \in 1..Len(r.route_geometry) |->
        [lat |-> r.route_geometry[i][2], lng |-> r.route_geometry[i][1]]]

(* The fallback list: origin, then destination, each only when both of *)
(* its coordinates are truthy.                                          *)
waypoints_to_check(r) ==
    (IF Truthy(r.origin_latitude) /\ Truthy(r.origin_longitude)
     THEN << [lat |-> r.origin_latitude, lng |-> r.origin_longitude] >>
     ELSE << >>)
    \o
    (IF Truthy(r.destination_latitude) /\ Truthy(r.destination_longitude)
     THEN << [lat |-> r.destination_latitude, lng |-> r.destination_longitude] >>
     ELSE << >>)

(* Variant: a vehicle at the tolerance counts as off the route. *)
is_deviated_at_tolerance(min_distance, tolerance) == min_distance >= tolerance

(* "is_deviated = min_distance > self.route_deviation_tolerance_meters" *)
is_deviated(min_distance, tolerance) == min_distance > tolerance

check_route_deviation(r, tolerance, current_lat, current_lng) ==
    LET wps == IF Len(r.route_geometry) > 0
               THEN GeometryPoints(r)
               ELSE waypoints_to_check(r)
        nearest == NearestFrom(wps, 1, current_lat, current_lng, NoNearest)
    IN  IF Len(wps) = 0
        THEN [is_deviated |-> FALSE, min_distance |-> Null,
              tolerance |-> tolerance, nearest_point |-> NoNearest,
              reason |-> "Rota sem coordenadas definidas"]
        ELSE [is_deviated |-> is_deviated(nearest.min_distance, tolerance),
              min_distance |-> nearest.min_distance,
              tolerance |-> tolerance, nearest_point |-> nearest,
              reason |-> ""]


----------------------------------------------------------------------------
(* The MonitoringSystem row *)

InitRow ==
    [status                           |-> "PLANEJADO",
     route_deviation_tolerance_meters |-> DefaultTolerance,
     has_active_deviation             |-> FALSE,
     last_deviation_detected_at       |-> Null,
     total_route_deviations           |-> 0,
     is_currently_stopped             |-> FALSE,
     stopped_since                    |-> Null,
     last_stop_alert_at               |-> Null,
     total_stops                      |-> 0,
     max_speed_recorded               |-> Null,
     average_speed                    |-> Null,
     total_distance_traveled          |-> 0,
     alerts_data                      |-> << >>]

(* MonitoringSystem.clean, called by full_clean: the device-freshness    *)
(* check of validate_device_update rejects the save of any field.        *)
full_clean(dev, t) == is_updated_recently(dev, t)

(* One analysis cycle works on obj, the in-memory copy of the row, and   *)
(* issues saves; each save writes the named fields of obj as they are at *)
(* that moment (Model.save(update_fields=...)).                          *)
save(c, update_fields) ==
    [c EXCEPT !.saves = Append(@, [update_fields |-> update_fields, obj |-> c.obj])]

(* The row after one save has been written. *)
Persist(row, s) ==
    [f \in DOMAIN row |-> IF f \in s.update_fields THEN s.obj[f] ELSE row[f]]

RECURSIVE PersistAll(_, _)
PersistAll(row, saves) ==
    IF saves = << >> THEN row
    ELSE PersistAll(Persist(row, Head(saves)), Tail(saves))

(* Variant: the log keeps the latest alert only. *)
add_alert_latest_only(c, t, alert_type, severity) ==
    LET alert == [timestamp |-> t, type |-> alert_type, severity |-> severity]
        c1 == [c EXCEPT !.obj.alerts_data = << alert >>, !.alert = alert]
    IN  save(c1, {"alerts_data"})

(* Variant: the alert waits in memory for a later save of alerts_data. *)
add_alert_unsaved(c, t, alert_type, severity) ==
    LET alert == [timestamp |-> t, type |-> alert_type, severity |-> severity]
    IN  [c EXCEPT !.obj.alerts_data = Append(@, alert), !.alert = alert]

(* MonitoringSystem.add_alert: append to alerts_data, save that field,   *)
(* return the alert.  The message text and the position snapshot of the *)
(* alert are left out of the record.                                    *)
add_alert(c, t, alert_type, severity) ==
    LET alert == [timestamp |-> t, type |-> alert_type, severity |-> severity]
        c1 == [c EXCEPT !.obj.alerts_data = Append(@, alert), !.alert = alert]
    IN  save(c1, {"alerts_data"})

(* Variant: the alert is logged but not handed to the caller. *)
Collect_nothing(c) == c

(* alerts_generated.append(alert), with the alert add_alert returned *)
Collect(c) == [c EXCEPT !.alerts_generated = Append(@, c.alert)]



----------------------------------------------------------------------------
(* MonitoringSystem.analyze_current_position, section by section *)

(* 1. route deviation *)

(* Variant: the repeated alert waits for more than two minutes. *)
should_alert_after(o, t) ==
    IF ~o.has_active_deviation
    THEN TRUE
    ELSE IF o.last_deviation_detected_at # Null
         THEN t - o.last_deviation_detected_at > DeviationRealertMinutes
         ELSE TRUE

(* Variant: every deviated sample alerts. *)
should_alert_always(o, t) == TRUE

(* should_alert of a deviated sample: a new deviation, or two minutes   *)
(* since the last alert, or an active deviation without timestamp.      *)
should_alert(o, t) ==
    IF ~o.has_active_deviation
    THEN TRUE
    ELSE IF o.last_deviation_detected_at # Null
         THEN t - o.last_deviation_detected_at >= DeviationRealertMinutes
         ELSE TRUE

(* Variant: the deviation counter is left alone. *)
count_deviation_never(o) == o

(* Variant: the counter follows every alert, repeated ones included. *)
count_deviation_every_alert(o) ==
    [o EXCEPT !.total_route_deviations = @ + 1]

(* "if not self.has_active_deviation: self.total_route_deviations += 1" *)
count_deviation(o) ==
    IF ~o.has_active_deviation
    THEN [o EXCEPT !.total_route_deviations = @ + 1]
    ELSE o

(* Variant: the return to the route is rate-limited like the repeats. *)
returned_to_route_limited(o, t) ==
    /\ o.has_active_deviation
    /\ t - o.last_deviation_detected_at >= DeviationRealertMinutes

(* "Voltou para a rota": the test of the else branch *)
returned_to_route(o, t) == o.has_active_deviation

DeviationStep(c, deviation_check, lat, lng, t) ==
    IF deviation_check.is_deviated
    THEN IF should_alert(c.obj, t)
         THEN LET c1 == Collect(add_alert(c, t, "route_deviation", "warning"))
                  c2 == [c1 EXCEPT
                           !.obj = [count_deviation(c1.obj) EXCEPT
                                      !.has_active_deviation = TRUE,
                                      !.last_deviation_detected_at = t]]
              IN  save(c2, {"has_active_deviation",
                            "last_deviation_detected_at",
                            "total_route_deviations"})
         ELSE c
    ELSE IF returned_to_route(c.obj, t)
         THEN LET c1 == Collect(add_alert(c, t, "route_back", "info"))
                  c2 == [c1 EXCEPT !.obj.has_active_deviation = FALSE]
              IN  save(c2, {"has_active_deviation"})
         ELSE c

(* 2. maximum speed *)
MaxSpeedStep(c, speed) ==
    IF speed > 0
    THEN IF ~Truthy(c.obj.max_speed_recorded) \/ speed > c.obj.max_speed_recorded
         THEN save([c EXCEPT !.obj.max_speed_recorded = speed],
                   {"max_speed_recorded"})
         ELSE c
    ELSE c

(* 3. prolonged stops *)

(* Variant: only the length of the stop is looked at. *)
should_alert_stop_unlimited(o, t) ==
    /\ o.stopped_since # Null
    /\ t - o.stopped_since >= StopAlertMinutes

(* should_alert_stop of a zero-speed sample on a vehicle already        *)
(* stopped: five minutes stopped, and no alert yet in this stop or five *)
(* minutes since the last one.                                          *)
should_alert_stop(o, t) ==
    /\ o.stopped_since # Null
    /\ t - o.stopped_since >= StopAlertMinutes
    /\ IF o.last_stop_alert_at = Null
       THEN TRUE
       ELSE t - o.last_stop_alert_at >= StopAlertMinutes

(* Variant: the stop counter is left alone. *)
count_stop_never(o) == o

(* Variant: every prolonged_stop alert counts as a stop. *)
count_stop_every_alert(o) ==
    [o EXCEPT !.total_stops = @ + 1]

(* "first_alert_of_this_stop = (self.last_stop_alert_at is None)" *)
count_stop(o) ==
    IF o.last_stop_alert_at = Null
    THEN [o EXCEPT !.total_stops = @ + 1]
    ELSE o

(* Variant: moving again also closes the deviation. *)
resume_movement_closing_deviation(o) ==
    [o EXCEPT !.is_currently_stopped = FALSE,
              !.stopped_since = Null,
              !.last_stop_alert_at = Null,
              !.has_active_deviation = FALSE]

(* Variant: the time of the last stop alert outlives the stop. *)
resume_movement_keeping_alert_time(o) ==
    [o EXCEPT !.is_currently_stopped = FALSE,
              !.stopped_since = Null]

(* The fields assigned when the vehicle moves again *)
resume_movement(o) ==
    [o EXCEPT !.is_currently_stopped = FALSE,
              !.stopped_since = Null,
              !.last_stop_alert_at = Null]

StopStep(c, speed, lat, lng, t) ==
    IF speed = 0
    THEN IF ~c.obj.is_currently_stopped
         THEN save([c EXCEPT !.obj.is_currently_stopped = TRUE,
                             !.obj.stopped_since = t],
                   {"is_currently_stopped", "stopped_since"})
         ELSE IF should_alert_stop(c.obj, t)
              THEN LET c1 == Collect(add_alert(c, t, "prolonged_stop", "warning"))
                       c2 == [c1 EXCEPT
                                !.obj = [count_stop(c1.obj) EXCEPT
                                           !.last_stop_alert_at = t]]
                   IN  save(c2, {"last_stop_alert_at", "total_stops"})
              ELSE c
    ELSE IF c.obj.is_currently_stopped
         THEN LET c1 == Collect(add_alert(c, t, "movement_resumed", "info"))
                  c2 == [c1 EXCEPT !.obj = resume_movement(c1.obj)]
              IN  save(c2, {"is_currently_stopped", "stopped_since",
                            "last_stop_alert_at"})
         ELSE c

NoAlert == [timestamp |-> Null, type |-> "", severity |-> ""]

NoCheck == [is_deviated |-> FALSE, min_distance |-> Null, tolerance |-> Null,
            nearest_point |-> NoNearest, reason |-> ""]

(* The stats of the returned dict *)
Stats(o) ==
    [has_active_deviation |-> o.has_active_deviation,
     total_deviations     |-> o.total_route_deviations,
     max_speed            |-> IF Truthy(o.max_speed_recorded)
                              THEN o.max_speed_recorded ELSE 0,
     is_currently_stopped |-> o.is_currently_stopped,
     total_stops          |-> o.total_stops]

(* Variant: every trip counts as in progress. *)
is_in_progress_always(obj) == TRUE

(* MonitoringSystem.is_in_progress, the test the method opens with *)
is_in_progress(obj) == obj.status = "EM_ANDAMENTO"

(* The whole method on obj, a copy of the row loaded at time t, when no  *)
(* save raises: the returned dict, the saves issued in order, and obj as *)
(* the method leaves it.                                                 *)
analyze_current_position(obj, dev, r, t) ==
    LET position == current_vehicle_position(dev)
        lat   == position.latitude
        lng   == position.longitude
        speed == IF Truthy(position.speed) THEN position.speed ELSE 0
        deviation_check ==
            check_route_deviation(r, obj.route_deviation_tolerance_meters, lat, lng)
        c0 == [obj |-> obj, saves |-> << >>, alerts_generated |-> << >>,
               alert |-> NoAlert]
        c1 == DeviationStep(c0, deviation_check, lat, lng, t)
        c2 == MaxSpeedStep(c1, speed)
        c3 == StopStep(c2, speed, lat, lng, t)
        failure(reason) ==
            [success |-> FALSE, reason |-> reason, position |-> NoPosition,
             speed |-> Null, deviation_check |-> NoCheck,
             alerts_generated |-> << >>, stats |-> Stats(obj),
             saves |-> << >>, obj |-> obj]
    IN  IF ~is_in_progress(obj)
        THEN failure("Viagem nao esta em andamento")
        ELSE IF position = NoPosition
        THEN failure("Nenhuma posicao disponivel")
        ELSE [success |-> TRUE, reason |-> "", position |-> position,
              speed |-> speed, deviation_check |-> deviation_check,
              alerts_generated |-> c3.alerts_generated, stats |-> Stats(c3.obj),
              saves |-> c3.saves, obj |-> c3.obj]


----------------------------------------------------------------------------
(* Calls *)

NoReturn == [success |-> FALSE, reason |-> "", position |-> NoPosition,
             is_deviated |-> FALSE, speed |-> Null,
             alerts_generated |-> << >>, stats |-> Stats(InitRow)]

NoResult == [op |-> "none", outcome |-> "", ret |-> NoReturn]

(* What the caller gets back (of deviation_check the deviation flag is  *)
(* kept, and with it the speed the cycle worked with).                   *)
Returned(a) ==
    [success |-> a.success, reason |-> a.reason, position |-> a.position,
     is_deviated |-> a.deviation_check.is_deviated, speed |-> a.speed,
     alerts_generated |-> a.alerts_generated, stats |-> a.stats]

(* MonitoringSystemViewSet.analyze_position, called dt after the         *)
(* previous call: load the row, run analyze_current_position on it.      *)
(* Every save of the cycle runs full_clean first; the first save of a    *)
(* cycle whose device is out of date raises ValidationError out of the   *)
(* method, before any write.                                             *)
AnalyzeWithin(dt, dev, horizon, cap) ==
    /\ now + dt <= StartTime + horizon
    /\ now' = now + dt
    /\ \E a \in {analyze_current_position(db, dev, route, now + dt)} :
         LET raises == a.saves # << >> /\ ~full_clean(dev, now + dt)
         IN  /\ Len(a.obj.alerts_data) <= cap
             /\ db' = IF raises THEN db ELSE PersistAll(db, a.saves)
             /\ result' = [op |-> "analyze",
                           outcome |-> IF raises THEN "raised" ELSE "returned",
                           ret |-> IF raises THEN NoReturn ELSE Returned(a)]
    /\ UNCHANGED <<route, history, cycles, device, vehicle, trips>>

(* The call within the bounds of the model *)
AnalyzePosition(dt, dev) == AnalyzeWithin(dt, dev, MaxTime, MaxAlerts)

(* The same call when the process stops, or the database rejects a       *)
(* write, after k of the cycle's saves have been written (k is less     *)
(* than the number of saves the cycle issues).                          *)
AnalyzeInterrupted(dt, dev) ==
    /\ now + dt <= StartTime + MaxTime
    /\ now' = now + dt
    /\ full_clean(dev, now + dt)
    /\ \E a \in {analyze_current_position(db, dev, route, now + dt)} :
         /\ Len(a.obj.alerts_data) <= MaxAlerts
         /\ \E k \in 0..(Len(a.saves) - 1) :
              db' = PersistAll(db, SubSeq(a.saves, 1, k))
         /\ result' = [op |-> "analyze", outcome |-> "interrupted",
                       ret |-> NoReturn]
    /\ UNCHANGED <<route, history, cycles, device, vehicle, trips>>

(* The status start_monitoring (towards EM_ANDAMENTO),                  *)
(* complete_monitoring (towards CONCLUIDO) and cancel_monitoring        *)
(* (towards CANCELADO) give the vehicle of the trip.  vehicle.save()    *)
(* is called before self.save(), the save full_clean can reject.        *)
vehicle_status(target, status) ==
    CASE target = "EM_ANDAMENTO" -> "EM_VIAGEM"
      [] target = "CONCLUIDO"    -> "DISPONIVEL"
      [] OTHER -> IF status = "EM_VIAGEM" THEN "DISPONIVEL" ELSE status

(* MonitoringSystemViewSet.start / complete / cancel with               *)
(* MonitoringSystem.start_monitoring / complete_monitoring /            *)
(* cancel_monitoring: the view's status test, then the status change,   *)
(* the save of the vehicle and a save of the whole row, which           *)
(* full_clean can reject.                                               *)
Transition(op, allowed, target, dev) ==
    LET outcome == IF db.status \notin allowed THEN "rejected"
                   ELSE IF ~full_clean(dev, now) THEN "raised"
                   ELSE "returned"
    IN  /\ db' = IF outcome = "returned" THEN [db EXCEPT !.status = target] ELSE db
        /\ vehicle' = IF outcome = "rejected" THEN vehicle
                      ELSE vehicle_status(target, vehicle)
        /\ result' = [NoResult EXCEPT !.op = op, !.outcome = outcome]
        /\ UNCHANGED <<now, route, history, cycles, device, trips>>

start(dev)    == Transition("start", {"PLANEJADO"}, "EM_ANDAMENTO", dev)
complete(dev) == Transition("complete", {"EM_ANDAMENTO"}, "CONCLUIDO", dev)
cancel(dev)   == Transition("cancel", {"PLANEJADO", "EM_ANDAMENTO"}, "CANCELADO", dev)

(* The HTML views monitoring_start / monitoring_complete /              *)
(* monitoring_cancel: the model method is called on a POST whatever the *)
(* status of the trip; an exception of the save becomes an error        *)
(* message.                                                             *)
HtmlTransition(op, target, dev) ==
    LET outcome == IF ~full_clean(dev, now) THEN "raised" ELSE "returned"
    IN  /\ db' = IF outcome = "returned" THEN [db EXCEPT !.status = target] ELSE db
        /\ vehicle' = vehicle_status(target, vehicle)
        /\ result' = [NoResult EXCEPT !.op = op, !.outcome = outcome]
        /\ UNCHANGED <<now, route, history, cycles, device, trips>>

monitoring_start(dev)    == HtmlTransition("monitoring_start", "EM_ANDAMENTO", dev)
monitoring_complete(dev) == HtmlTransition("monitoring_complete", "CONCLUIDO", dev)
monitoring_cancel(dev)   == HtmlTransition("monitoring_cancel", "CANCELADO", dev)

(* The admin actions, on the rows of the selection their filter keeps *)
start_monitoring_action(dev) ==
    Transition("start_monitoring_action", {"PLANEJADO"}, "EM_ANDAMENTO", dev)
complete_monitoring_action(dev) ==
    Transition("complete_monitoring_action", {"EM_ANDAMENTO"}, "CONCLUIDO", dev)
cancel_monitoring_action(dev) ==
    Transition("cancel_monitoring_action", {"PLANEJADO", "EM_ANDAMENTO"},
               "CANCELADO", dev)

(* The periodic task, for a trip past its planned end *)
auto_complete_overdue_monitoring(dev) ==
    Transition("auto_complete_overdue_monitoring", {"EM_ANDAMENTO"}, "CONCLUIDO", dev)

----------------------------------------------------------------------------
(* The position history and MonitoringSystem.update_trip_statistics *)

(* MonitoringSystem.save_position_snapshot: one more row, unless the    *)
(* device gives no position or the row is a duplicate (unique_together  *)
(* on device_timestamp, latitude, longitude; the IntegrityError is      *)
(* swallowed).  The speed of the row is the speed of the position,      *)
(* which is None for a device speed of 0.                               *)
save_position_snapshot(hist, dev) ==
    LET position == current_vehicle_position(dev)
        row == [latitude |-> position.latitude, longitude |-> position.longitude,
                speed |-> position.speed, device_timestamp |-> position.last_update]
    IN  IF position = NoPosition THEN hist
        ELSE IF \E i \in DOMAIN hist :
                    /\ hist[i].device_timestamp = row.device_timestamp
                    /\ hist[i].latitude = row.latitude
                    /\ hist[i].longitude = row.longitude
             THEN hist
             ELSE Append(hist, row)

(* position_history.order_by('device_timestamp'): insertion of each row *)
(* behind the rows that are not younger.                                *)
RECURSIVE order_by_device_timestamp(_)
order_by_device_timestamp(rows) ==
    IF rows = << >> THEN << >>
    ELSE LET sorted == order_by_device_timestamp(SubSeq(rows, 1, Len(rows) - 1))
             row    == rows[Len(rows)]
             before == SelectSeq(sorted,
                           LAMBDA r : r.device_timestamp <= row.device_timestamp)
             after  == SelectSeq(sorted,
                           LAMBDA r : r.device_timestamp > row.device_timestamp)
         IN  before \o << row >> \o after

RECURSIVE sum(_)
sum(speeds) == IF speeds = << >> THEN 0 ELSE Head(speeds) + sum(Tail(speeds))

(* "for i in range(1, len(positions))": positions[i] is curr and        *)
(* positions[i - 1] is prev; the loop is entered at the second record.  *)
RECURSIVE StatsLoop(_, _, _)
StatsLoop(positions, i, acc) ==
    IF i > Len(positions)
    THEN acc
    ELSE LET prev == positions[i - 1]
             curr == positions[i]
             distance == haversine_distance(prev.latitude, prev.longitude,
                                            curr.latitude, curr.longitude)
         IN  StatsLoop(positions, i + 1,
                [total_distance_m |-> acc.total_distance_m + distance,
                 speeds |-> IF curr.speed # Null
                            THEN Append(acc.speeds, curr.speed) ELSE acc.speeds,
                 stops  |-> IF curr.speed # Null /\ curr.speed = 0
                            THEN acc.stops + 1 ELSE acc.stops])

(* The fields are DecimalFields with decimal_places = 2 and the method  *)
(* assigns floats to them.  full_clean converts a float with as many    *)
(* significant digits as the field has max_digits, so that every float  *)
(* that is not a whole number comes out with more than two decimal      *)
(* places and is rejected: the quotient num / den passes when it is a   *)
(* whole number.                                                        *)
decimal_places_ok(num, den) == num % den = 0

(* update_trip_statistics on obj with the rows hist: obj as the method  *)
(* leaves it, the save it issues, and whether the assigned numbers pass *)
(* the field validation of that save.                                   *)
update_trip_statistics(obj, hist) ==
    LET positions == order_by_device_timestamp(hist)
        acc  == StatsLoop(positions, 2,
                          [total_distance_m |-> 0, speeds |-> << >>, stops |-> 0])
        obj1 == [obj EXCEPT
                   !.total_distance_traveled = acc.total_distance_m \div 1000,
                   !.average_speed = IF acc.speeds # << >>
                                     THEN sum(acc.speeds) \div Len(acc.speeds)
                                     ELSE @,
                   !.total_stops = acc.stops]
    IN  IF Len(positions) < 2
        THEN [obj |-> obj, saves |-> << >>, valid |-> TRUE]
        ELSE [obj |-> obj1,
              saves |-> << [update_fields |-> {"total_distance_traveled",
                                               "average_speed", "total_stops"},
                            obj |-> obj1] >>,
              valid |-> /\ decimal_places_ok(acc.total_distance_m, 1000)
                        /\ \/ acc.speeds = << >>
                           \/ decimal_places_ok(sum(acc.speeds), Len(acc.speeds))]

(* broadcast_fleet_positions, one minute after the previous call, for   *)
(* the trip when it is in progress and its device has a position.       *)
SavePositionSnapshot(dev) ==
    /\ db.status = "EM_ANDAMENTO"
    /\ current_vehicle_position(dev) # NoPosition
    /\ Len(history) < MaxHistory
    /\ now' = now + 1
    /\ history' = save_position_snapshot(history, dev)
    /\ result' = [NoResult EXCEPT !.op = "save_position_snapshot",
                                  !.outcome = "returned"]
    /\ UNCHANGED <<route, db, cycles, device, vehicle, trips>>

(* A call of update_trip_statistics; its save runs full_clean. *)
UpdateTripStatistics(dev) ==
    /\ \E u \in {update_trip_statistics(db, history)} :
         LET raises == u.saves # << >> /\ ~(u.valid /\ full_clean(dev, now))
         IN  /\ db' = IF raises THEN db ELSE PersistAll(db, u.saves)
             /\ result' = [NoResult EXCEPT
                              !.op = "update_trip_statistics",
                              !.outcome = IF raises THEN "raised" ELSE "returned"]
    /\ UNCHANGED <<now, route, history, cycles, device, vehicle, trips>>

----------------------------------------------------------------------------
(* Overlapping calls of MonitoringSystemViewSet.analyze_position: each   *)
(* worker loads its own copy of the row (get_object), runs               *)
(* analyze_current_position on the copy and writes the saves of the      *)
(* cycle one by one.  Nothing in the view or in the model takes a lock  *)
(* on the trip.                                                          *)

Procs == {1, 2}

NoDevice == [last_latitude |-> Null, last_longitude |-> Null,
             last_speed |-> Null, last_system_date |-> Null]

NoCycle == [pc |-> "idle", obj |-> InitRow, dev |-> NoDevice, t |-> Null,
            pending |-> << >>, ret |-> NoReturn]

(* Device rows updated at the moment of the call *)
FreshDeviceRows(t) ==
    [last_latitude : Latitudes, last_longitude : {Lng}, last_speed : Speeds,
     last_system_date : {t}]

(* Variant: the cycle works on the row as it is in the database now. *)
loaded_row_fresh(p) == db

(* The object the cycle of worker p works on: the copy get_object made *)
loaded_row(p) == cycles[p].obj

(* sm = self.get_object() *)
Load(p, dev) ==
    /\ cycles[p].pc = "idle"
    /\ cycles' = [cycles EXCEPT ![p] = [NoCycle EXCEPT !.pc = "loaded", !.obj = db,
                                                      !.dev = dev, !.t = now]]
    /\ UNCHANGED <<now, route, db, result, history, device, vehicle, trips>>

(* result = sm.analyze_current_position(), up to its first save: the    *)
(* decisions of the cycle are taken on the loaded copy.                  *)
Run(p) ==
    /\ cycles[p].pc = "loaded"
    /\ \E a \in {analyze_current_position(loaded_row(p), cycles[p].dev, route,
                                          cycles[p].t)} :
         IF a.saves # << >> /\ ~full_clean(cycles[p].dev, cycles[p].t)
         THEN /\ cycles' = [cycles EXCEPT ![p].pc = "done"]
              /\ result' = [op |-> "analyze", outcome |-> "raised", ret |-> NoReturn]
         ELSE /\ cycles' = [cycles EXCEPT ![p].pc = "writing",
                                          ![p].pending = a.saves,
                                          ![p].ret = Returned(a)]
              /\ UNCHANGED result
    /\ UNCHANGED <<now, route, db, history, device, vehicle, trips>>

(* The next save of the cycle reaches the database. *)
Write(p) ==
    /\ cycles[p].pc = "writing"
    /\ cycles[p].pending # << >>
    /\ db' = Persist(db, Head(cycles[p].pending))
    /\ cycles' = [cycles EXCEPT ![p].pending = Tail(@)]
    /\ UNCHANGED <<now, route, result, history, device, vehicle, trips>>

(* return Response(result) *)
Return(p) ==
    /\ cycles[p].pc = "writing"
    /\ cycles[p].pending = << >>
    /\ cycles' = [cycles EXCEPT ![p].pc = "done"]
    /\ result' = [op |-> "analyze", outcome |-> "returned", ret |-> cycles[p].ret]
    /\ UNCHANGED <<now, route, db, history, device, vehicle, trips>>

----------------------------------------------------------------------------
(* The Device row and Device.save *)

OldPositionMinutes == 10   \* the age of an injected old position

(* Variant: no write is taken for an old position. *)
is_older_position_never(new_date, old_date) == FALSE

(* self.last_system_date < old_device.last_system_date *)
is_older_position(new_date, old_date) == new_date < old_date

(* Device.save() of the in-memory object self of a row that exists      *)
(* (self.pk is set), skip_timestamp_validation left False: the          *)
(* persisted timestamp is read and compared when both are set; a        *)
(* ValidationError is raised before full_clean and the write.           *)
Device_save(self, old_device) ==
    LET raises == /\ self.last_system_date # Null
                  /\ old_device.last_system_date # Null
                  /\ is_older_position(self.last_system_date,
                                       old_device.last_system_date)
    IN  [raised |-> raises, row |-> IF raises THEN old_device ELSE self]

(* The fields a handler sets on its Device object before device.save() *)
DevicePositions(dates) ==
    [last_latitude : Latitudes \ {Null}, last_longitude : {Lng},
     last_speed : Speeds \ {Null}, last_system_date : dates]

(* A handler that loads the device, sets its position fields and calls  *)
(* device.save(), dt after the previous call.                           *)
WriteDevice(op, dt, self) ==
    /\ now + dt <= StartTime + MaxTime
    /\ now' = now + dt
    /\ \E s \in {Device_save(self, device)} :
         /\ device' = s.row
         /\ result' = [NoResult EXCEPT
                          !.op = op,
                          !.outcome = IF s.raised THEN "raised" ELSE "returned"]
    /\ UNCHANGED <<route, db, history, cycles, vehicle, trips>>

(* Device.sync_with_suntech: the position and the systemDate the        *)
(* telemetry API returns (a date of the past, or none: the object       *)
(* keeps the date it was loaded with), then self.save().                *)
sync_with_suntech(dt, vehicle_data) ==
    WriteDevice("sync_with_suntech", dt,
                IF vehicle_data.last_system_date = Null
                THEN [vehicle_data EXCEPT
                         !.last_system_date = device.last_system_date]
                ELSE vehicle_data)

(* MonitoringSystemViewSet.inject_test_position: the timestamp is now,  *)
(* or ten minutes ago with use_old_timestamp.                           *)
inject_test_position(dt, position, use_old_timestamp) ==
    WriteDevice("inject_test_position", dt,
                [position EXCEPT !.last_system_date =
                    IF use_old_timestamp THEN now + dt - OldPositionMinutes
                    ELSE now + dt])

(* simulate_trip: one position of the simulation, or the old position   *)
(* of --inject-old.                                                     *)
simulate_trip(dt, position, inject_old) ==
    WriteDevice("simulate_trip", dt,
                [position EXCEPT !.last_system_date =
                    IF inject_old THEN now + dt - OldPositionMinutes
                    ELSE now + dt])

----------------------------------------------------------------------------
(* The other trips of the vehicle: creation, deletion, life cycle *)

(* The number in the identifier of the trip of db, the first trip       *)
(* created in the year: 'SM-<year>-0001'.  An identifier is counted as  *)
(* its number; the year is the same for every trip of the model and    *)
(* '{count:04d}' gives different texts for different numbers.           *)
OwnIdentifier == 1

(* count = MonitoringSystem.objects.filter(                             *)
(*     identifier__startswith=f'SM-{year}-').count() + 1                *)
(* over the trip of db and the other rows                               *)
generated_identifier(rows) == (Cardinality(rows) + 1) + 1

(* validate_unique of full_clean on the unique field identifier *)
identifier_exists(rows, identifier) ==
    identifier = OwnIdentifier \/ \E t \in rows : t.identifier = identifier

(* monitoring_create: MonitoringSystem.objects.create(...) with no      *)
(* identifier, for the vehicle of the trip of db; save() generates the  *)
(* identifier and runs full_clean, and the view turns an exception     *)
(* into an error message.                                               *)
monitoring_create(dev) ==
    /\ Cardinality(trips) < MaxTrips
    /\ \E identifier \in {generated_identifier(trips)} :
         LET raises == \/ identifier_exists(trips, identifier)
                       \/ ~full_clean(dev, now)
         IN  /\ trips' = IF raises THEN trips
                         ELSE trips \cup {[identifier |-> identifier,
                                           status |-> "PLANEJADO"]}
             /\ result' = [NoResult EXCEPT
                              !.op = "monitoring_create",
                              !.outcome = IF raises THEN "raised" ELSE "returned"]
    /\ UNCHANGED <<now, route, db, history, cycles, device, vehicle>>

(* monitoring_delete: trip.delete() *)
monitoring_delete(t) ==
    /\ t \in trips
    /\ trips' = trips \ {t}
    /\ result' = [NoResult EXCEPT !.op = "monitoring_delete",
                                  !.outcome = "returned"]
    /\ UNCHANGED <<now, route, db, history, cycles, device, vehicle>>

(* MonitoringSystemViewSet.start / complete / cancel on another trip    *)
(* of the same vehicle.                                                 *)
OtherTransition(t, op, allowed, target, dev) ==
    LET outcome == IF t.status \notin allowed THEN "rejected"
                   ELSE IF ~full_clean(dev, now) THEN "raised"
                   ELSE "returned"
    IN  /\ t \in trips
        /\ trips' = IF outcome = "returned"
                    THEN (trips \ {t}) \cup {[t EXCEPT !.status = target]}
                    ELSE trips
        /\ vehicle' = IF outcome = "rejected" THEN vehicle
                      ELSE vehicle_status(target, vehicle)
        /\ result' = [NoResult EXCEPT !.op = op, !.outcome = outcome]
        /\ UNCHANGED <<now, route, db, history, cycles, device>>

start_other(t, dev) ==
    OtherTransition(t, "start", {"PLANEJADO"}, "EM_ANDAMENTO", dev)
complete_other(t, dev) ==
    OtherTransition(t, "complete", {"EM_ANDAMENTO"}, "CONCLUIDO", dev)
cancel_other(t, dev) ==
    OtherTransition(t, "cancel", {"PLANEJADO", "EM_ANDAMENTO"}, "CANCELADO", dev)

----------------------------------------------------------------------------
Init ==
    /\ now = StartTime
    /\ route \in Routes
    /\ db = InitRow
    /\ result = NoResult
    /\ history = << >>
    /\ cycles = [p \in Procs |-> NoCycle]
    /\ device = NoDevice
    /\ vehicle = "DISPONIVEL"
    /\ trips = {}

(* The clock is followed while the trip is in progress. *)
Delays == IF db.status = "EM_ANDAMENTO" THEN Ticks ELSE {0}

Next ==
    \/ \E dt \in Delays : \E dev \in DeviceRows(now + dt) : AnalyzePosition(dt, dev)
    \/ \E dev \in ParkedDeviceRows(now) : start(dev)

Spec == Init /\ [][Next]_vars

(* The calls five minutes apart (none while the trip is not in progress). *)
SlowDelays == Delays \ {1}

(* The same system with interrupted cycles. *)
NextFault ==
    \/ \E dt \in SlowDelays : \E dev \in DeviceRows(now + dt) : AnalyzePosition(dt, dev)
    \/ \E dt \in SlowDelays : \E dev \in DeviceRows(now + dt) : AnalyzeInterrupted(dt, dev)
    \/ \E dev \in ParkedDeviceRows(now) : start(dev)

SpecFault == Init /\ [][NextFault]_vars

(* The life cycle of the trip. *)
NextLifecycle ==
    \/ \E dt \in SlowDelays : \E dev \in DeviceRows(now + dt) : AnalyzePosition(dt, dev)
    \/ \E dev \in ParkedDeviceRows(now) : start(dev)
    \/ \E dev \in ParkedDeviceRows(now) : complete(dev)
    \/ \E dev \in ParkedDeviceRows(now) : cancel(dev)

SpecLifecycle == Init /\ [][NextLifecycle]_vars


(* check_route_deviation on its own: a route, a tolerance, and the       *)
(* method called with one position after another.                      *)
Tolerances     == {100, DefaultTolerance, 300}
CheckLatitudes == 3..19

InitCheck ==
    /\ now = StartTime
    /\ route \in Routes
    /\ db \in {[InitRow EXCEPT !.route_deviation_tolerance_meters = tol] :
                 tol \in Tolerances}
    /\ result = NoResult
    /\ history = << >>
    /\ cycles = [p \in Procs |-> NoCycle]
    /\ device = NoDevice
    /\ vehicle = "DISPONIVEL"
    /\ trips = {}

CheckRouteDeviation(lat) ==
    /\ result' = [op |-> "check_route_deviation", outcome |-> "returned",
                  ret |-> check_route_deviation(route,
                              db.route_deviation_tolerance_meters, lat, Lng)]
    /\ UNCHANGED <<now, route, db, history, cycles, device, vehicle, trips>>

NextCheck == \E lat \in CheckLatitudes : CheckRouteDeviation(lat)

SpecCheck == InitCheck /\ [][NextCheck]_vars

(* The statistics of a trip whose history table holds up to two rows    *)
(* when the model starts (any speed the column can hold) and grows by   *)
(* the snapshots of the trip.                                           *)
HistoryRows(t) ==
    [latitude : {14, 24}, longitude : {Lng}, speed : {Null, 0, 50},
     device_timestamp : {t}]

Histories ==
    {<< >>}
    \cup {<< r >> : r \in HistoryRows(StartTime - 1)}
    \cup {<< r1, r2 >> : r1 \in HistoryRows(StartTime - 2),
                         r2 \in HistoryRows(StartTime - 1)}

InitStats ==
    /\ now = StartTime
    /\ route = RouteGeom
    /\ db = InitRow
    /\ result = NoResult
    /\ history \in Histories
    /\ cycles = [p \in Procs |-> NoCycle]
    /\ device = NoDevice
    /\ vehicle = "DISPONIVEL"
    /\ trips = {}

NextStats ==
    \/ \E dev \in FreshDeviceRows(now + 1) : SavePositionSnapshot(dev)
    \/ \E dev \in ParkedDeviceRows(now) : UpdateTripStatistics(dev)
    \/ \E dev \in ParkedDeviceRows(now) : start(dev)
    \/ \E dev \in ParkedDeviceRows(now) : complete(dev)
    \/ \E dev \in ParkedDeviceRows(now) : cancel(dev)

SpecStats == InitStats /\ [][NextStats]_vars

(* The life cycle through every entry point that changes the status. *)
NextEntryPoints ==
    \/ \E dt \in SlowDelays : \E dev \in DeviceRows(now + dt) : AnalyzePosition(dt, dev)
    \/ \E dev \in ParkedDeviceRows(now) : start(dev)
    \/ \E dev \in ParkedDeviceRows(now) : complete(dev)
    \/ \E dev \in ParkedDeviceRows(now) : cancel(dev)
    \/ \E dev \in ParkedDeviceRows(now) : monitoring_start(dev)
    \/ \E dev \in ParkedDeviceRows(now) : monitoring_complete(dev)
    \/ \E dev \in ParkedDeviceRows(now) : monitoring_cancel(dev)
    \/ \E dev \in ParkedDeviceRows(now) : start_monitoring_action(dev)
    \/ \E dev \in ParkedDeviceRows(now) : complete_monitoring_action(dev)
    \/ \E dev \in ParkedDeviceRows(now) : cancel_monitoring_action(dev)
    \/ \E dev \in ParkedDeviceRows(now) : auto_complete_overdue_monitoring(dev)

SpecEntryPoints == Init /\ [][NextEntryPoints]_vars

(* Two workers, one call each, on the same trip. *)
NextOverlap ==
    \/ \E dev \in ParkedDeviceRows(now) : start(dev)
    \/ \E p \in Procs : \E dev \in FreshDeviceRows(now) : Load(p, dev)
    \/ \E p \in Procs : Run(p)
    \/ \E p \in Procs : Write(p)
    \/ \E p \in Procs : Return(p)

SpecOverlap == Init /\ [][NextOverlap]_vars

(* The writers of the Device row, called in turn. *)
DeviceDelays == {0, 1}

SystemDates(t) == {Null, t, t - 1, t - OldPositionMinutes}

NextDevice ==
    \/ \E dt \in DeviceDelays :
         \E vehicle_data \in DevicePositions(SystemDates(now + dt)) :
           sync_with_suntech(dt, vehicle_data)
    \/ \E dt \in DeviceDelays : \E position \in DevicePositions({Null}) :
         \E use_old_timestamp \in BOOLEAN :
           inject_test_position(dt, position, use_old_timestamp)
    \/ \E dt \in DeviceDelays : \E position \in DevicePositions({Null}) :
         \E inject_old \in BOOLEAN :
           simulate_trip(dt, position, inject_old)

SpecDevice == Init /\ [][NextDevice]_vars

(* Calls in quick succession: the next call comes within the same       *)
(* minute (delay 0) or one minute later, the device just updated.       *)
AlternateDelays == IF db.status = "EM_ANDAMENTO" THEN {0, 1} ELSE {0}

NextAlternate ==
    \/ \E dt \in AlternateDelays : \E dev \in FreshDeviceRows(now + dt) :
         AnalyzeWithin(dt, dev, AlternateTime, AlternateAlerts)
    \/ \E dev \in ParkedDeviceRows(now) : start(dev)

SpecAlternate == Init /\ [][NextAlternate]_vars

(* Several trips of one vehicle, the device of the vehicle up to date   *)
(* at every call.                                                       *)
UpdatedDeviceRows(t) == {dev \in ParkedDeviceRows(t) : is_updated_recently(dev, t)}

NextFleet ==
    \/ \E dev \in UpdatedDeviceRows(now) : start(dev)
    \/ \E dev \in UpdatedDeviceRows(now) : complete(dev)
    \/ \E dev \in UpdatedDeviceRows(now) : cancel(dev)
    \/ \E dev \in UpdatedDeviceRows(now) : monitoring_create(dev)
    \/ \E t \in trips : monitoring_delete(t)
    \/ \E t \in trips : \E dev \in UpdatedDeviceRows(now) : start_other(t, dev)
    \/ \E t \in trips : \E dev \in UpdatedDeviceRows(now) : complete_other(t, dev)
    \/ \E t \in trips : \E dev \in UpdatedDeviceRows(now) : cancel_other(t, dev)

SpecFleet == Init /\ [][NextFleet]_vars

(* The analysis cycles together with the position history and the       *)
(* recalculation of the statistics.                                     *)
NextRecalc ==
    \/ \E dt \in SlowDelays : \E dev \in DeviceRows(now + dt) : AnalyzePosition(dt, dev)
    \/ \E dev \in FreshDeviceRows(now + 1) : SavePositionSnapshot(dev)
    \/ \E dev \in ParkedDeviceRows(now) : UpdateTripStatistics(dev)
    \/ \E dev \in ParkedDeviceRows(now) : start(dev)

SpecRecalc == Init /\ [][NextRecalc]_vars

----------------------------------------------------------------------------
(* Properties *)

Count(alerts, type) ==
    Cardinality({i \in DOMAIN alerts : alerts[i].type = type})

(* The last call was an analysis cycle that ran to its return statement *)
(* with success = true.                                                 *)
Ran == result.op = "analyze" /\ result.outcome = "returned" /\ result.ret.success

(* The alerts of the given type the last cycle returned *)
Emitted(type) == Count(result.ret.alerts_generated, type)

(* C1: an analysis cycle raises total_route_deviations by exactly 1 when *)
(* it runs on a deviated sample while has_active_deviation is false,    *)
(* and by 0 in every other case, so a run of deviated samples counts    *)
(* once.                                                                *)
C1_DeviationCountedOnEntry ==
    [][result'.op = "analyze" =>
         db'.total_route_deviations =
             db.total_route_deviations
             + (IF Ran' /\ result'.ret.is_deviated /\ ~db.has_active_deviation
                THEN 1 ELSE 0)]_vars

(* A cycle on a deviated sample that found the deviation already active, *)
(* with the counter still at 1.                                         *)
C1_Witness ==
    /\ Ran /\ result.ret.is_deviated
    /\ Emitted("route_deviation") = 0
    /\ db.has_active_deviation
    /\ db.total_route_deviations = 1
    /\ db.last_deviation_detected_at < now

(* C2: on a deviated sample with the deviation already active, the      *)
(* cycle emits a route_deviation alert exactly when two minutes or more *)
(* have passed since last_deviation_detected_at; it then sets           *)
(* last_deviation_detected_at to now and keeps total_route_deviations.  *)
C2_RepeatAlertEveryTwoMinutes ==
    [][(Ran' /\ result'.ret.is_deviated /\ db.has_active_deviation) =>
         /\ Emitted("route_deviation")' =
               (IF now' - db.last_deviation_detected_at >= DeviationRealertMinutes
                THEN 1 ELSE 0)
         /\ db'.last_deviation_detected_at =
               (IF now' - db.last_deviation_detected_at >= DeviationRealertMinutes
                THEN now' ELSE db.last_deviation_detected_at)
         /\ db'.total_route_deviations = db.total_route_deviations]_vars

(* A repeated alert: the second route_deviation alert of one deviation. *)
C2_Witness ==
    /\ Ran /\ Emitted("route_deviation") = 1
    /\ Count(db.alerts_data, "route_deviation") = 2
    /\ db.total_route_deviations = 1
    /\ db.last_deviation_detected_at = now

(* C3: a cycle on a sample that is not deviated, with the deviation     *)
(* active, emits exactly one route_back alert of severity info and      *)
(* clears has_active_deviation, whatever the time since                 *)
(* last_deviation_detected_at; with no deviation active it emits none.  *)
C3_OneRouteBackPerReturn ==
    [][(Ran' /\ ~result'.ret.is_deviated) =>
         /\ Emitted("route_back")' = (IF db.has_active_deviation THEN 1 ELSE 0)
         /\ \A i \in DOMAIN result'.ret.alerts_generated :
               result'.ret.alerts_generated[i].type = "route_back"
                   => result'.ret.alerts_generated[i].severity = "info"
         /\ ~db'.has_active_deviation]_vars

(* Back on the route less than two minutes after the deviation alert. *)
C3_Witness ==
    /\ Ran /\ Emitted("route_back") = 1
    /\ ~db.has_active_deviation
    /\ now - db.last_deviation_detected_at < DeviationRealertMinutes

(* No prolonged_stop alert of the log belongs to the stop in progress:   *)
(* none is stamped at or after stopped_since.                           *)
NoStopAlertYet(row) ==
    \A i \in DOMAIN row.alerts_data :
        row.alerts_data[i].type = "prolonged_stop"
            => row.alerts_data[i].timestamp < row.stopped_since

(* C4 as stated: total_stops counts every stop episode (a maximal run   *)
(* of zero-speed samples) exactly once, so every episode that has ended *)
(* - each has left its movement_resumed alert - has been counted.       *)
C4_EveryEpisodeCounted ==
    Count(db.alerts_data, "movement_resumed") <= db.total_stops

(* C4: total_stops goes up by exactly 1 on the cycle that emits the     *)
(* first prolonged_stop alert of a stop episode and by 0 on every other *)
(* cycle: later prolonged_stop alerts of the episode do not count, and  *)
(* an episode that ends before any prolonged_stop alert is not counted. *)
C4_StopCountedOnFirstAlert ==
    [][result'.op = "analyze" =>
         db'.total_stops =
             db.total_stops
             + (IF Ran' /\ Emitted("prolonged_stop")' = 1 /\ NoStopAlertYet(db)
                THEN 1 ELSE 0)]_vars

(* The second prolonged_stop alert of one stop, the counter still at 1. *)
C4_Witness ==
    /\ Ran /\ Emitted("prolonged_stop") = 1
    /\ Count(db.alerts_data, "prolonged_stop") = 2
    /\ db.alerts_data[1].timestamp > db.stopped_since
    /\ db.total_stops = 1

(* C5: the first zero-speed sample of a stop emits no alert and sets    *)
(* stopped_since to now; a later zero-speed sample at time t emits one  *)
(* prolonged_stop alert of severity warning exactly when                *)
(* t - stopped_since >= 5 minutes and last_stop_alert_at is null or     *)
(* t - last_stop_alert_at >= 5 minutes.                                 *)
C5_StopAlertEveryFiveMinutes ==
    [][(Ran' /\ result'.ret.speed = 0) =>
         IF ~db.is_currently_stopped
         THEN /\ Emitted("prolonged_stop")' = 0
              /\ db'.is_currently_stopped
              /\ db'.stopped_since = now'
              /\ db'.last_stop_alert_at = db.last_stop_alert_at
         ELSE LET due == /\ now' - db.stopped_since >= StopAlertMinutes
                         /\ \/ db.last_stop_alert_at = Null
                            \/ now' - db.last_stop_alert_at >= StopAlertMinutes
              IN  /\ Emitted("prolonged_stop")' = (IF due THEN 1 ELSE 0)
                  /\ \A i \in DOMAIN result'.ret.alerts_generated :
                        result'.ret.alerts_generated[i].type = "prolonged_stop"
                            => result'.ret.alerts_generated[i].severity = "warning"
                  /\ db'.last_stop_alert_at =
                        (IF due THEN now' ELSE db.last_stop_alert_at)
                  /\ db'.is_currently_stopped
                  /\ db'.stopped_since = db.stopped_since]_vars

(* A zero-speed sample of a stop longer than five minutes that stays    *)
(* silent, the stop's alert being less than five minutes old.           *)
C5_Witness ==
    /\ Ran /\ result.ret.speed = 0
    /\ Emitted("prolonged_stop") = 0
    /\ Count(db.alerts_data, "prolonged_stop") = 1
    /\ db.last_stop_alert_at = db.stopped_since + StopAlertMinutes
    /\ now > db.last_stop_alert_at
    /\ now - db.last_stop_alert_at < StopAlertMinutes

(* C6: a sample of non-zero speed while is_currently_stopped is true    *)
(* emits exactly one movement_resumed alert of severity info and resets *)
(* is_currently_stopped to false and stopped_since and                  *)
(* last_stop_alert_at to null; with no stop in progress it emits none.  *)
C6_MovementResumedResetsStop ==
    [][(Ran' /\ result'.ret.speed # 0) =>
         /\ Emitted("movement_resumed")' = (IF db.is_currently_stopped THEN 1 ELSE 0)
         /\ \A i \in DOMAIN result'.ret.alerts_generated :
               result'.ret.alerts_generated[i].type = "movement_resumed"
                   => result'.ret.alerts_generated[i].severity = "info"
         /\ ~db'.is_currently_stopped
         /\ db'.stopped_since = Null
         /\ db'.last_stop_alert_at = Null]_vars

(* Movement resumed after a stop that had raised its alert. *)
C6_Witness ==
    /\ Ran /\ Emitted("movement_resumed") = 1
    /\ Count(db.alerts_data, "prolonged_stop") = 1
    /\ ~db.is_currently_stopped
    /\ db.stopped_since = Null
    /\ db.last_stop_alert_at = Null

(* C7: a call of the analyzer on a trip that is not EM_ANDAMENTO, or    *)
(* with a device that gives no position, returns success = false with a *)
(* reason, raises nothing and leaves the row, alert log included, as it *)
(* was - so that the call can be repeated with the same outcome.        *)
C7_NoOpWithoutTripOrPosition ==
    [][\A dt \in Delays : \A dev \in DeviceRows(now + dt) :
         (/\ AnalyzePosition(dt, dev)
          /\ \/ db.status # "EM_ANDAMENTO"
             \/ current_vehicle_position(dev) = NoPosition)
         => /\ result'.outcome = "returned"
            /\ ~result'.ret.success
            /\ result'.ret.reason # ""
            /\ result'.ret.alerts_generated = << >>
            /\ db' = db]_vars

(* The analyzer called on a completed trip that has an alert in its log. *)
C7_Witness ==
    /\ result.op = "analyze" /\ result.outcome = "returned"
    /\ ~result.ret.success
    /\ result.ret.reason = "Viagem nao esta em andamento"
    /\ db.status = "CONCLUIDO"
    /\ Len(db.alerts_data) > 0

(* C8: on a route with no coordinates at all a cycle that returns is a  *)
(* no-op: success = false, no alert, no field changed.                  *)
C8_NoOpWithoutCoordinates ==
    [][(/\ result'.op = "analyze" /\ result'.outcome = "returned"
        /\ db.status = "EM_ANDAMENTO"
        /\ Len(route.route_geometry) = 0
        /\ waypoints_to_check(route) = << >>)
       => /\ ~result'.ret.success
          /\ result'.ret.alerts_generated = << >>
          /\ db' = db]_vars

(* C9: a cycle that stops between two of its writes leaves the row as   *)
(* it was before the cycle.                                             *)
C9_AllOrNothing ==
    [][(result'.op = "analyze" /\ result'.outcome = "interrupted") => db' = db]_vars

(* An alert of the given type stamped t is in the persisted log. *)
Logged(row, type, t) ==
    \E i \in DOMAIN row.alerts_data :
        row.alerts_data[i].type = type /\ row.alerts_data[i].timestamp = t

(* C10: the alert of a transition is persisted when it is appended,     *)
(* before the state fields of the transition: whenever a cycle, run to  *)
(* the end or stopped after any of its writes, has changed a state      *)
(* field of a transition, the alert of that transition is in the        *)
(* persisted log, and no cycle removes an alert from the log.           *)
C10_AlertPersistedBeforeState ==
    [][result'.op = "analyze" =>
         /\ SubSeq(db'.alerts_data, 1, Len(db.alerts_data)) = db.alerts_data
         /\ (db'.last_deviation_detected_at # db.last_deviation_detected_at
               \/ (~db.has_active_deviation /\ db'.has_active_deviation))
              => Logged(db', "route_deviation", now')
         /\ (db.has_active_deviation /\ ~db'.has_active_deviation)
              => Logged(db', "route_back", now')
         /\ (db'.last_stop_alert_at # db.last_stop_alert_at
               /\ db'.last_stop_alert_at # Null)
              => Logged(db', "prolonged_stop", now')
         /\ (db.is_currently_stopped /\ ~db'.is_currently_stopped)
              => Logged(db', "movement_resumed", now')]_vars

(* A cycle stopped after add_alert's write: the route_deviation alert   *)
(* is in the log and the deviation fields are as before.                *)
C10_Witness ==
    /\ result.op = "analyze" /\ result.outcome = "interrupted"
    /\ Logged(db, "route_deviation", now)
    /\ ~db.has_active_deviation
    /\ db.last_deviation_detected_at = Null

(* C11: nothing serialises the cycles of one trip.  A cycle decides on   *)
(* its own copy of the row: every cycle that loaded the trip with       *)
(* has_active_deviation = false and ran on a deviated sample returns    *)
(* the route_deviation alert of a new deviation, whatever the other     *)
(* cycle has written since the copy was loaded - so that two            *)
(* overlapping cycles give two transition alerts for one deviation.     *)
C11_EveryStaleCopyAlerts ==
    \A p \in Procs :
        (/\ cycles[p].pc \in {"writing", "done"}
         /\ cycles[p].ret.success
         /\ cycles[p].ret.is_deviated
         /\ ~cycles[p].obj.has_active_deviation)
        => Count(cycles[p].ret.alerts_generated, "route_deviation") = 1

(* Both cycles have returned a route_deviation alert for the one        *)
(* deviation, both alerts are in the log and the counter stands at 1.   *)
C11_Witness ==
    /\ \A p \in Procs :
         /\ cycles[p].pc = "done"
         /\ ~cycles[p].obj.has_active_deviation
         /\ Count(cycles[p].ret.alerts_generated, "route_deviation") = 1
    /\ Count(db.alerts_data, "route_deviation") = 2
    /\ db.total_route_deviations = 1
    /\ db.has_active_deviation

(* C12: the alert log is append-only.  Over cycles run one at a time,   *)
(* the persisted log after a step has the log before the step as a     *)
(* prefix: no alert is removed, reordered or modified.                 *)
C12_LogAppendOnly ==
    [][/\ Len(db'.alerts_data) >= Len(db.alerts_data)
       /\ SubSeq(db'.alerts_data, 1, Len(db.alerts_data)) = db.alerts_data]_vars

(* A cycle has appended one alert behind an alert of an earlier cycle. *)
C12_Witness ==
    /\ Ran /\ Len(result.ret.alerts_generated) = 1
    /\ Len(db.alerts_data) = 2
    /\ db.alerts_data[1].timestamp < now
    /\ db.alerts_data[2] = result.ret.alerts_generated[1]

DeviationFields(o) ==
    <<o.has_active_deviation, o.last_deviation_detected_at, o.total_route_deviations>>

StopFields(o) ==
    <<o.is_currently_stopped, o.stopped_since, o.last_stop_alert_at, o.total_stops>>

DeviationFieldNames ==
    {"has_active_deviation", "last_deviation_detected_at", "total_route_deviations"}

StopFieldNames ==
    {"is_currently_stopped", "stopped_since", "last_stop_alert_at", "total_stops"}

(* C13: the deviation and stop sub-machines are independent.  In every  *)
(* successful cycle, replayed section by section from the row before    *)
(* the cycle and the sample the cycle returned, the deviation section   *)
(* assigns and saves none of is_currently_stopped, stopped_since,       *)
(* last_stop_alert_at, total_stops, and the stop section assigns and    *)
(* saves none of has_active_deviation, last_deviation_detected_at,      *)
(* total_route_deviations.                                              *)
C13_SubMachinesIndependent ==
    [][Ran' =>
         LET lat   == result'.ret.position.latitude
             lng   == result'.ret.position.longitude
             speed == result'.ret.speed
             c0 == [obj |-> db, saves |-> << >>, alerts_generated |-> << >>,
                    alert |-> NoAlert]
         IN  \E c1 \in {DeviationStep(c0,
                           check_route_deviation(route,
                               db.route_deviation_tolerance_meters, lat, lng),
                           lat, lng, now')} :
             \E c2 \in {MaxSpeedStep(c1, speed)} :
             \E c3 \in {StopStep(c2, speed, lat, lng, now')} :
                /\ db' = PersistAll(db, c3.saves)
                /\ StopFields(c1.obj) = StopFields(db)
                /\ \A i \in 1..Len(c1.saves) :
                      c1.saves[i].update_fields \cap StopFieldNames = {}
                /\ DeviationFields(c3.obj) = DeviationFields(c2.obj)
                /\ \A i \in (Len(c2.saves) + 1)..Len(c3.saves) :
                      c3.saves[i].update_fields \cap DeviationFieldNames = {}]_vars

(* All four combinations on one run: the deviation began while the      *)
(* vehicle was moving (true, false), the vehicle then stopped off the   *)
(* route (true, true), and it is back on the route and still stopped    *)
(* (false, true); the run began at (false, false).                      *)
C13_Witness ==
    /\ Ran /\ Emitted("route_back") = 1
    /\ ~db.has_active_deviation /\ db.is_currently_stopped
    /\ Len(db.alerts_data) = 2
    /\ db.alerts_data[1].type = "route_deviation"
    /\ db.alerts_data[1].timestamp < db.stopped_since
    /\ db.stopped_since < now

(* The points the distance is taken to: the polyline, or without it the *)
(* origin and destination the route has.                                *)
RoutePoints(r) ==
    LET wps == IF Len(r.route_geometry) > 0 THEN GeometryPoints(r)
               ELSE waypoints_to_check(r)
    IN  {wps[i] : i \in DOMAIN wps}

(* The distances from (lat, lng) to the points of the route *)
Distances(r, lat, lng) ==
    {haversine_distance(lat, lng, wp.lat, wp.lng) : wp \in RoutePoints(r)}

(* C14: on a route that has points, check_route_deviation returns       *)
(* is_deviated = true exactly when every point of the route is farther  *)
(* than the tolerance (the minimum distance is strictly greater than    *)
(* route_deviation_tolerance_meters; a minimum equal to the tolerance   *)
(* is no deviation), the min_distance it returns is that minimum, and   *)
(* of two calls on the same route and tolerance the one with the larger *)
(* minimum distance is deviated whenever the other one is.              *)
C14_DeviatedIffBeyondTolerance ==
    [][(result'.op = "check_route_deviation" /\ RoutePoints(route) # {}) =>
         LET lat == CHOOSE l \in CheckLatitudes :
                        result'.ret = check_route_deviation(route,
                            db.route_deviation_tolerance_meters, l, Lng)
             ds  == Distances(route, lat, Lng)
         IN  /\ result'.ret.is_deviated
                   = (\A d \in ds : d > db.route_deviation_tolerance_meters)
             /\ result'.ret.min_distance \in ds
             /\ \A d \in ds : result'.ret.min_distance <= d
             /\ (/\ result.op = "check_route_deviation"
                 /\ result.ret.is_deviated
                 /\ result'.ret.min_distance >= result.ret.min_distance)
                => result'.ret.is_deviated]_vars

(* A position at exactly the tolerance from the nearest point of the    *)
(* route, found not deviated.                                           *)
C14_Witness ==
    /\ result.op = "check_route_deviation"
    /\ result.ret.min_distance = db.route_deviation_tolerance_meters
    /\ result.ret.min_distance > 0
    /\ ~result.ret.is_deviated

(* The speeds of all records of the history that have one *)
RecordedSpeeds(hist) ==
    LET rows == SelectSeq(hist, LAMBDA r : r.speed # Null)
    IN  [i \in DOMAIN rows |-> rows[i].speed]

(* C15: update_trip_statistics on a history of at least 2 records sets  *)
(* average_speed to the arithmetic mean of the speeds of all records    *)
(* whose speed is not null, the earliest record included.               *)
C15_AverageOverAllRecords ==
    [][(/\ result'.op = "update_trip_statistics"
        /\ result'.outcome = "returned"
        /\ Len(history) >= 2
        /\ RecordedSpeeds(history) # << >>)
       => /\ db'.average_speed # Null
          /\ db'.average_speed * Len(RecordedSpeeds(history))
                = sum(RecordedSpeeds(history))]_vars

C17_TerminalTripReadOnly ==
    [][db.status \in {"CONCLUIDO", "CANCELADO"} => db' = db]_vars

(* C18: for every successful cycle, alerts_generated of the returned    *)
(* result is exactly the sequence of alerts the cycle appended to the   *)
(* log, in the same order, and the returned stats has_active_deviation, *)
(* total_deviations, is_currently_stopped and total_stops equal the     *)
(* fields of the trip after the cycle.                                  *)
C18_ResultMatchesRow ==
    [][Ran' =>
         /\ db'.alerts_data = db.alerts_data \o result'.ret.alerts_generated
         /\ result'.ret.stats.has_active_deviation = db'.has_active_deviation
         /\ result'.ret.stats.total_deviations = db'.total_route_deviations
         /\ result'.ret.stats.is_currently_stopped = db'.is_currently_stopped
         /\ result'.ret.stats.total_stops = db'.total_stops]_vars

(* A cycle that returned two alerts, a new deviation and the first      *)
(* alert of a stop, in the order they stand in the log.                 *)
C18_Witness ==
    /\ Ran /\ Len(result.ret.alerts_generated) = 2
    /\ result.ret.alerts_generated[1].type = "route_deviation"
    /\ result.ret.alerts_generated[2].type = "prolonged_stop"
    /\ db.alerts_data = result.ret.alerts_generated
    /\ result.ret.stats.total_deviations = 1
    /\ result.ret.stats.total_stops = 1

(* C19: the status of a trip only moves PLANEJADO -> EM_ANDAMENTO,       *)
(* EM_ANDAMENTO -> CONCLUIDO, and PLANEJADO or EM_ANDAMENTO ->          *)
(* CANCELADO, through every entry point; CONCLUIDO and CANCELADO are    *)
(* terminal.                                                            *)
C19_StatusTransitions ==
    [][db'.status # db.status =>
         <<db.status, db'.status>> \in
             {<<"PLANEJADO", "EM_ANDAMENTO">>, <<"EM_ANDAMENTO", "CONCLUIDO">>,
              <<"PLANEJADO", "CANCELADO">>, <<"EM_ANDAMENTO", "CANCELADO">>}]_vars

(* C20: a save of the trip is rejected when the device of the vehicle   *)
(* was last updated DEVICE_UPDATE_THRESHOLD_MINUTES ago or earlier; the *)
(* device is up to date only when the age of its last update is         *)
(* strictly less than the threshold.                                    *)
C20_RejectedAtThreshold ==
    [][\A dev \in ParkedDeviceRows(now) :
         (/\ start(dev)
          /\ db.status = "PLANEJADO"
          /\ now - dev.last_system_date >= DEVICE_UPDATE_THRESHOLD_MINUTES)
         => (result'.outcome = "raised" /\ db' = db)]_vars

(* C21: a Device.save without skip_timestamp_validation whose           *)
(* last_system_date is older than the persisted one raises              *)
(* ValidationError and leaves the persisted device unchanged, so the    *)
(* persisted last_system_date never moves backwards.                    *)
C21_OlderPositionRejected ==
    [][/\ \A op \in {"sync_with_suntech", "inject_test_position", "simulate_trip"} :
          \A dt \in DeviceDelays :
            \A self \in DevicePositions(SystemDates(now + dt) \ {Null}) :
              (/\ WriteDevice(op, dt, self)
               /\ device.last_system_date # Null
               /\ self.last_system_date < device.last_system_date)
              => (result'.outcome = "raised" /\ device' = device)
       /\ device.last_system_date # Null
          => device'.last_system_date >= device.last_system_date]_vars

(* An old position has been rejected and the row has a timestamp. *)
C21_Witness ==
    /\ result.op = "sync_with_suntech"
    /\ result.outcome = "raised"
    /\ device.last_system_date = now

(* The log has no route_back alert between its entries i and j. *)
NoReturnBetween(log, i, j) ==
    \A k \in (i + 1)..(j - 1) : log[k].type # "route_back"

(* C22 as stated: any two route_deviation alerts of the trip are at     *)
(* least 2 minutes apart, a return to the route between them or not.    *)
C22_AlertsTwoMinutesApart ==
    \A i \in 1..Len(db.alerts_data) : \A j \in (i + 1)..Len(db.alerts_data) :
      (/\ db.alerts_data[i].type = "route_deviation"
       /\ db.alerts_data[j].type = "route_deviation")
      => db.alerts_data[j].timestamp - db.alerts_data[i].timestamp
            >= DeviationRealertMinutes

(* C22: two route_deviation alerts of the trip with no route_back       *)
(* alert between them (alerts of one deviation episode) are at least 2  *)
(* minutes apart.                                                       *)
C22_EpisodeAlertsTwoMinutesApart ==
    \A i \in 1..Len(db.alerts_data) : \A j \in (i + 1)..Len(db.alerts_data) :
      (/\ db.alerts_data[i].type = "route_deviation"
       /\ db.alerts_data[j].type = "route_deviation"
       /\ NoReturnBetween(db.alerts_data, i, j))
      => db.alerts_data[j].timestamp - db.alerts_data[i].timestamp
            >= DeviationRealertMinutes

(* Two route_deviation alerts of one episode, after calls that came     *)
(* within the same minute.                                              *)
C22_Witness ==
    /\ Len(db.alerts_data) = 2
    /\ db.alerts_data[1].type = "route_deviation"
    /\ db.alerts_data[2].type = "route_deviation"
    /\ db.has_active_deviation
    /\ now = db.last_deviation_detected_at + 1

(* C23: analyze_current_position on a trip in progress whose device     *)
(* has a position never raises: the call returns success = true, also   *)
(* when the device was last updated more than 30 minutes ago.           *)
C23_AnalyzeNeverRaises ==
    [][\A dt \in Delays : \A dev \in DeviceRows(now + dt) :
         (/\ AnalyzePosition(dt, dev)
          /\ is_in_progress(db)
          /\ current_vehicle_position(dev) # NoPosition)
         => (result'.outcome = "returned" /\ result'.ret.success)]_vars

(* The types of alert add_alert is called with *)
AlertTypes == {"route_deviation", "route_back", "prolonged_stop", "movement_resumed"}

(* C24: once two overlapping cycles have both finished, every alert     *)
(* either of them returned is in the persisted log: the log holds an    *)
(* entry for each alert the two cycles returned (an alert of one cycle  *)
(* is not the alert of the other, also when type and minute agree).     *)
C24_NoAlertLost ==
    (\A p \in Procs : cycles[p].pc = "done")
    => \A type \in AlertTypes :
         Count(db.alerts_data, type) >=
            Count(cycles[1].ret.alerts_generated, type)
            + Count(cycles[2].ret.alerts_generated, type)

(* C25: start_monitoring, complete_monitoring and cancel_monitoring     *)
(* change the status of the trip and of the vehicle together: when the  *)
(* save of the trip is rejected by validation, the persisted status of  *)
(* the vehicle is the one from before the call.                         *)
C25_VehicleUnchangedOnRejection ==
    [][(result'.op \in {"start", "complete", "cancel"}
        /\ result'.outcome = "raised") => vehicle' = vehicle]_vars

(* C26: the vehicle is EM_VIAGEM whenever at least one of its trips is  *)
(* EM_ANDAMENTO.                                                        *)
C26_VehicleInTripWhileTripInProgress ==
    (db.status = "EM_ANDAMENTO" \/ \E t \in trips : t.status = "EM_ANDAMENTO")
    => vehicle = "EM_VIAGEM"

(* C27: total_stops never decreases during a trip, over any             *)
(* interleaving of analysis cycles and update_trip_statistics calls.    *)
C27_TotalStopsNeverDecreases ==
    [][db'.total_stops >= db.total_stops]_vars

(* C29: after any sequence of trip creations and deletions, saving a    *)
(* new trip without identifier succeeds and gives it an identifier      *)
(* different from the identifier of every existing trip.                *)
C29_GeneratedIdentifierIsNew ==
    [][result'.op = "monitoring_create" =>
         /\ result'.outcome = "returned"
         /\ \E t \in trips' : /\ t \notin trips
                              /\ ~identifier_exists(trips, t.identifier)]_vars

(* C28: in every state reached from a freshly started trip by cycles    *)
(* run one at a time, total_route_deviations is the number of           *)
(* route_back alerts in the log plus one if a deviation is active, and  *)
(* an active deviation has its last_deviation_detected_at set.          *)
C28_DeviationCounterMatchesLog ==
    /\ db.total_route_deviations =
          Count(db.alerts_data, "route_back")
          + (IF db.has_active_deviation THEN 1 ELSE 0)
    /\ db.has_active_deviation => db.last_deviation_detected_at # Null

(* A deviation that was counted and has ended, after a cycle. *)
C28_Witness ==
    /\ Ran
    /\ db.total_route_deviations = 1
    /\ Count(db.alerts_data, "route_back") = 1
    /\ ~db.has_active_deviation

(* The movement_resumed alert at place j of the log has a               *)
(* prolonged_stop alert before it in the same stop episode: after the   *)
(* movement_resumed alert before it, if there is one.                   *)
AfterProlongedStop(log, j) ==
    \E i \in 1..(j - 1) :
      /\ log[i].type = "prolonged_stop"
      /\ \A k \in (i + 1)..(j - 1) : log[k].type # "movement_resumed"

(* C30 as stated: every movement_resumed alert is preceded within the   *)
(* same stop episode by at least one prolonged_stop alert.              *)
C30_ResumedOnlyAfterProlongedStop ==
    \A j \in 1..Len(db.alerts_data) :
      db.alerts_data[j].type = "movement_resumed"
      => AfterProlongedStop(db.alerts_data, j)

(* C30: the movement_resumed alerts that are preceded within their stop *)
(* episode by a prolonged_stop alert are never more than total_stops    *)
(* (a movement_resumed alert is also emitted after a stop shorter than  *)
(* 5 minutes, which has no prolonged_stop alert and is not counted).    *)
C30_ResumedAfterProlongedStopCounted ==
    Cardinality({j \in 1..Len(db.alerts_data) :
                   /\ db.alerts_data[j].type = "movement_resumed"
                   /\ AfterProlongedStop(db.alerts_data, j)})
       <= db.total_stops

(* A stop of five minutes has ended: prolonged_stop, then movement_resumed *)
C30_Witness ==
    /\ Ran /\ Emitted("movement_resumed") = 1
    /\ Len(db.alerts_data) = 2
    /\ db.alerts_data[1].type = "prolonged_stop"
    /\ db.alerts_data[2].type = "movement_resumed"
    /\ db.total_stops = 1

====
